---- MODULE Spec2Model ----
(***************************************************************************)
(* Model of the conversation-heartbeat-app synchronization core:           *)
(*   - the database functions and constraints of the SQL migration         *)
(*     (get_or_create_conversation, friend_requests, friendships,          *)
(*     accept_friend_request, send_friend_request_by_invite),               *)
(*   - the AuthProvider (session identity) and                              *)
(*   - the ChatProvider (stores, fetches, realtime subscription).           *)
(* Row ids (UUIDs) are modelled as positive integers; 0 is NULL / null.     *)
(***************************************************************************)
EXTENDS Integers, Sequences, FiniteSets, TLC

\* ------------------------------------------------------------------------
\* Bounds of the model
\* ------------------------------------------------------------------------
MaxConvs == 2
MaxRequests == 2
MaxMessages == 3
MaxChannels == 3
MaxProfileFetches == 2
\* distinct created_at values
MaxTime == 2
\* timers ChatArea sets
MaxTimers == 3

Users == {1, 2, 3}
Codes == {"c1"}
NoCode == "none"
Null == 0
\* message text is a sequence of characters; the inputs of sendMessage
Whitespace == {" "}
Contents == {<<>>, <<" ">>, <<" ", "a", " ">>, <<"b">>}
\* the identity that signs in on the modelled client
Self == 1
\* no error message (setError(null))
NoError == "none"

VARIABLES
    \* --- database: conversations (part_005:14-30) ---
    conversations,              \* set of rows [id, type, created_by]
    conversation_participants,  \* set of rows [conversation_id, user_id]
    updated_at,                 \* conversation ids, earliest updated_at first
    \* --- one get_or_create_conversation call per caller ---
    call,
    \* --- database: friend workflow (part_005:213-231, 335) ---
    friend_requests,            \* set of rows [id, sender_id, receiver_id, status]
    friendships,                \* set of rows [user1_id, user2_id]
    invite_code,                \* profiles.invite_code, per identity
    acceptLog,                  \* history: request ids whose accept succeeded
    lastOp,                     \* outcome of the latest friend-workflow call
    \* --- database: messages (part_005:33-43), in created_at order ---
    db_messages,                \* sequence of rows [id, conversation_id, sender_id, content]
    lastSend,                   \* history: the latest sendMessage call and whether it
                                \* issued the conversations.updated_at update
    message_rows,               \* the rows with the columns ORDER BY sees:
                                \* set of [id, conversation_id, created_at]
    \* --- database: profiles.status of Self and update_user_status calls ---
    presence,                   \* profiles.status: "online" or "offline"
    statusCalls,                \* update_user_status calls sent and not yet applied
    \* --- database: typing_indicators (part_005:46-53) ---
    typing_indicators,          \* set of rows [conversation_id, user_id, is_typing]
    typingCall,                 \* history: per conversation, the latest of
                                \* startTyping ("start") and stopTyping ("stop")
    startsSinceStop,            \* history: startTyping calls since the latest
                                \* stopTyping call
    \* --- identity provider and AuthProvider (AuthContext.tsx:253-463) ---
    session,                    \* the provider's session: an identity or Null
    user,                       \* useState user: an identity or Null
    profileFetches,             \* fetchUserProfile calls in flight
    logoutPc,                   \* logout(): "idle", "offline" or "signout"
    authIsLoading,              \* AuthProvider's useState isLoading
    error,                      \* AuthProvider's useState error: a message or NoError
    loginPc,                    \* login(): "idle" or "signin" (awaiting the provider)
    loginReturn,                \* history: what the latest login() returned:
                                \* "true", "false" or "none"
    \* --- ChatArea (EmojiPicker.tsx:103-178) ---
    newMessage,                 \* useState newMessage
    isTyping,                   \* useState isTyping
    typingTimeoutRef,           \* typingTimeoutRef.current: a timer id or Null
    timers,                     \* setTimeout timers created so far: [conv, pending]
    \* --- ChatProvider (ChatContext.tsx:89-162) ---
    currentConversation,        \* useState currentConversation
    convStore,                  \* useState conversations
    msgStore,                   \* useState messages
    friends,                    \* useState friends
    friendRequests,             \* useState friendRequests (received, pending)
    pendingRequests,            \* useState pendingRequests (sent, pending)
    isLoading,                  \* useState isLoading
    channel,                    \* useState channel: a channel id or Null
    cleanupChannel,             \* channel as captured by the [user] effect's cleanup
    channels,                   \* realtime channels created so far
    fetches,                    \* store fetches in flight, per kind, in issue order
    latestRead                  \* history: per kind, the result of the latest-issued fetch

dbConv == <<conversations, conversation_participants, updated_at>>
dbMessages == <<db_messages, lastSend, message_rows>>
presenceVars == <<presence, statusCalls>>
typingDb == <<typing_indicators, typingCall, startsSinceStop>>
loginVars == <<authIsLoading, error, loginPc, loginReturn>>
typingVars == <<newMessage, isTyping, typingTimeoutRef, timers>>
typingAll == <<typingDb, typingVars>>
dbFriends == <<friend_requests, friendships, invite_code, acceptLog, lastOp>>
authVars == <<session, user, profileFetches, logoutPc>>
storeVars == <<convStore, msgStore, friends, friendRequests, pendingRequests, isLoading>>
subVars == <<channel, cleanupChannel, channels>>
fetchVars == <<fetches, latestRead>>
clientVars == <<authVars, currentConversation, storeVars, subVars, fetchVars>>
vars == <<conversations, conversation_participants, updated_at, call,
          friend_requests, friendships, invite_code, acceptLog, lastOp,
          db_messages, lastSend, message_rows, presenceVars, typingDb,
          loginVars, typingVars, clientVars>>

\* ------------------------------------------------------------------------
\* Conversation Resolver: get_or_create_conversation
\* ------------------------------------------------------------------------
ParticipantsOf(c) == {p.user_id : p \in {q \in conversation_participants : q.conversation_id = c}}

ParticipantRows(c) == {q \in conversation_participants : q.conversation_id = c}

\* The SELECT of get_or_create_conversation: direct conversations that have a
\* participant row for the caller, one for other_user_id, and exactly 2 rows.
\* (mutant) the SELECT finding only conversations the caller created
FindDirect_OwnOnly(self, other) ==
    {c.id : c \in {d \in conversations :
                      /\ d.type = "direct"
                      /\ d.created_by = self
                      /\ self \in ParticipantsOf(d.id)
                      /\ other \in ParticipantsOf(d.id)
                      /\ Cardinality(ParticipantRows(d.id)) = 2}}

FindDirect(self, other) ==
    {c.id : c \in {d \in conversations :
                      /\ d.type = "direct"
                      /\ self \in ParticipantsOf(d.id)
                      /\ other \in ParticipantsOf(d.id)
                      /\ Cardinality(ParticipantRows(d.id)) = 2}}

\* gen_random_uuid(): a fresh id
NewConvId == Cardinality(conversations) + 1

IdleCall == [pc |-> "idle", other_user_id |-> Null, conv_id |-> Null, racing |-> FALSE]

InProgress(u) == call[u].pc \in {"select", "insert"}

\* The counterpart call of the same pair is running: other is resolving
\* (other, u) right now.
Counterpart(u, other) ==
    /\ other # u
    /\ InProgress(other)
    /\ call[other].other_user_id = u

\* startConversation issues the rpc (ChatContext.tsx:490); the function's
\* transaction starts.  racing is a history field: the call overlaps the
\* counterpart call of the same pair, and the pair had no direct conversation
\* when the later of the two started (so none when either started: rows are
\* never deleted).
RpcBegin(u, other) ==
    /\ call[u].pc \in {"idle", "done", "failed"}
    /\ LET race == Counterpart(u, other) /\ FindDirect(u, other) = {} IN
       call' = [v \in Users |->
                 IF v = u
                 THEN [pc |-> "select", other_user_id |-> other, conv_id |-> Null,
                       racing |-> race]
                 ELSE IF v = other /\ race
                      THEN [call[v] EXCEPT !.racing = TRUE]
                      ELSE call[v]]
    /\ UNCHANGED <<dbConv, dbFriends, dbMessages, presenceVars, loginVars, typingAll,
                   clientVars>>

\* SELECT c.id INTO conv_id ...: the first matching row, in no defined order;
\* NULL when there is none.
RpcSelect(u) ==
    /\ call[u].pc = "select"
    /\ LET found == FindDirect(u, call[u].other_user_id) IN
         IF found = {}
         THEN call' = [call EXCEPT ![u].pc = "insert"]
         ELSE \E id \in found :
                call' = [call EXCEPT ![u].pc = "done", ![u].conv_id = id]
    /\ UNCHANGED <<dbConv, dbFriends, dbMessages, presenceVars, loginVars, typingAll,
                   clientVars>>

\* IF conv_id IS NULL: INSERT the conversation and both participant rows, and
\* commit.  UNIQUE(conversation_id, user_id) makes the participant insert, and
\* with it the whole transaction, fail when other_user_id is the caller.
RpcInsert(u) ==
    /\ call[u].pc = "insert"
    /\ Cardinality(conversations) < MaxConvs
    /\ LET other == call[u].other_user_id
           id == NewConvId
       IN IF other = u
          THEN /\ call' = [call EXCEPT ![u].pc = "failed"]
               /\ UNCHANGED dbConv
          ELSE /\ conversations' = conversations \cup
                      {[id |-> id, type |-> "direct", created_by |-> u]}
               /\ conversation_participants' = conversation_participants \cup
                      {[conversation_id |-> id, user_id |-> u],
                       [conversation_id |-> id, user_id |-> other]}
               /\ updated_at' = Append(updated_at, id)
               /\ call' = [call EXCEPT ![u].pc = "done", ![u].conv_id = id]
    /\ UNCHANGED <<dbFriends, dbMessages, presenceVars, loginVars, typingAll,
                   clientVars>>

\* ------------------------------------------------------------------------
\* Friend-request workflow (database side, called by any identity)
\* ------------------------------------------------------------------------
\* friend_requests.id: UNIQUE(sender_id, receiver_id) and the absence of any
\* DELETE make the ordered pair a key, so the uuid is numbered by the pair.
RequestId(s, r) == (s - 1) * Cardinality(Users) + r
RequestIds == {RequestId(s, r) : s \in Users, r \in Users}
\* ids a caller may name: one per ordered pair of distinct identities, and one
\* that no row ever carries
CallIds == {id \in RequestIds : \E s \in Users, r \in Users : s # r /\ id = RequestId(s, r)}
             \cup {RequestId(1, 1)}

\* LEAST / GREATEST of accept_friend_request
Least(a, b) == IF a < b THEN a ELSE b
Greatest(a, b) == IF a < b THEN b ELSE a

FriendshipOf(a, b) == [user1_id |-> Least(a, b), user2_id |-> Greatest(a, b)]

AreFriends(a, b) ==
    \E f \in friendships : \/ (f.user1_id = a /\ f.user2_id = b)
                           \/ (f.user1_id = b /\ f.user2_id = a)

RequestExistsBetween(a, b) ==
    \E q \in friend_requests : \/ (q.sender_id = a /\ q.receiver_id = b)
                               \/ (q.sender_id = b /\ q.receiver_id = a)

Outcome(op, caller, arg, ok) == [op |-> op, caller |-> caller, arg |-> arg, ok |-> ok]

\* (mutant) the insert without UNIQUE(sender_id, receiver_id)
SendAllowed_NoUnique(u, target) == u # target

\* INSERT INTO friend_requests (sender_id, receiver_id): the RLS insert policy
\* (auth.uid() = sender_id AND sender_id != receiver_id) and
\* UNIQUE(sender_id, receiver_id) decide.
SendAllowed(u, target) ==
    /\ u # target
    /\ ~ \E q \in friend_requests : q.sender_id = u /\ q.receiver_id = target

InsertRequest(u, target) ==
    friend_requests \cup {[id |-> RequestId(u, target), sender_id |-> u,
                           receiver_id |-> target, status |-> "pending"]}

sendFriendRequest(u, target) ==
    /\ IF SendAllowed(u, target) /\ Cardinality(friend_requests) < MaxRequests
       THEN /\ friend_requests' = InsertRequest(u, target)
            /\ lastOp' = Outcome("send", u, target, TRUE)
       ELSE /\ ~ SendAllowed(u, target)
            /\ UNCHANGED friend_requests
            /\ lastOp' = Outcome("send", u, target, FALSE)
    /\ UNCHANGED <<friendships, invite_code, acceptLog, dbConv, call, dbMessages,
                   presenceVars, loginVars, typingAll, clientVars>>

\* (mutant) the lookup without "AND id != auth.uid()"
InviteTargets_WithSelf(u, code) == {t \in Users : invite_code[t] = code}

\* send_friend_request_by_invite: the profile holding the code, other than
\* the caller
InviteTargets(u, code) == {t \in Users : invite_code[t] = code /\ t # u}

InviteAllowed(u, t) == ~ AreFriends(u, t) /\ ~ RequestExistsBetween(u, t)

sendFriendRequestByInvite(u, code) ==
    /\ IF \E t \in InviteTargets(u, code) : InviteAllowed(u, t)
       THEN /\ Cardinality(friend_requests) < MaxRequests
            /\ \E t \in InviteTargets(u, code) :
                  /\ friend_requests' = InsertRequest(u, t)
                  /\ lastOp' = Outcome("invite", u, t, TRUE)
       ELSE /\ UNCHANGED friend_requests
            /\ lastOp' = Outcome("invite", u, Null, FALSE)
    /\ UNCHANGED <<friendships, invite_code, acceptLog, dbConv, call, dbMessages,
                   presenceVars, loginVars, typingAll, clientVars>>

\* (mutant) the SELECT without "receiver_id = auth.uid()"
AcceptFound_AnyCaller(u, id) ==
    {q \in friend_requests : q.id = id /\ q.status = "pending"}

\* accept_friend_request: the SELECT ... WHERE id = request_id AND
\* receiver_id = auth.uid() AND status = 'pending'
AcceptFound(u, id) ==
    {q \in friend_requests : q.id = id /\ q.receiver_id = u /\ q.status = "pending"}

SetStatus(id, st) ==
    {IF q.id = id THEN [q EXCEPT !.status = st] ELSE q : q \in friend_requests}

\* (mutant) the row as (sender, receiver), without LEAST / GREATEST
AcceptFriendship_Unordered(req) ==
    [user1_id |-> req.sender_id, user2_id |-> req.receiver_id]

\* VALUES (LEAST(sender_id, receiver_id), GREATEST(sender_id, receiver_id))
AcceptFriendship(req) == FriendshipOf(req.sender_id, req.receiver_id)

\* (mutant) the request is accepted and the friendship insert is skipped
FriendshipsAfterAccept_Skipped(req) == friendships

\* INSERT INTO friendships ... ON CONFLICT (user1_id, user2_id) DO NOTHING
FriendshipsAfterAccept(req) == friendships \cup {AcceptFriendship(req)}

acceptFriendRequest(u, id) ==
    /\ IF AcceptFound(u, id) # {}
       THEN \E req \in AcceptFound(u, id) :
              /\ friend_requests' = SetStatus(id, "accepted")
              /\ friendships' = FriendshipsAfterAccept(req)
              /\ acceptLog' = acceptLog \cup {id}
              /\ lastOp' = Outcome("accept", u, id, TRUE)
       ELSE /\ UNCHANGED <<friend_requests, friendships, acceptLog>>
            /\ lastOp' = Outcome("accept", u, id, FALSE)
    /\ UNCHANGED <<invite_code, dbConv, call, dbMessages, presenceVars, loginVars,
                   typingAll, clientVars>>

\* (mutant) the update without the policy's "auth.uid() = receiver_id"
RejectRows_AnyCaller(u, id) == {q \in friend_requests : q.id = id}

\* rejectFriendRequest: UPDATE friend_requests SET status = 'rejected'
\* WHERE id = requestId, filtered by the RLS update policy
\* (auth.uid() = receiver_id); an update of no row is no error.
RejectRows(u, id) == {q \in friend_requests : q.id = id /\ q.receiver_id = u}

rejectFriendRequest(u, id) ==
    /\ friend_requests' =
          {IF q \in RejectRows(u, id) THEN [q EXCEPT !.status = "rejected"] ELSE q :
              q \in friend_requests}
    /\ lastOp' = Outcome("reject", u, id, TRUE)
    /\ UNCHANGED <<friendships, invite_code, acceptLog, dbConv, call, dbMessages,
                   presenceVars, loginVars, typingAll, clientVars>>

\* generateInviteCode: UPDATE profiles SET invite_code = <random code>
\* WHERE id = user.id; profiles.invite_code is UNIQUE.
generateInviteCode(u, code) ==
    /\ IF \E t \in Users \ {u} : invite_code[t] = code
       THEN /\ UNCHANGED invite_code
            /\ lastOp' = Outcome("generate", u, Null, FALSE)
       ELSE /\ invite_code' = [invite_code EXCEPT ![u] = code]
            /\ lastOp' = Outcome("generate", u, Null, TRUE)
    /\ UNCHANGED <<friend_requests, friendships, acceptLog, dbConv, call, dbMessages,
                   presenceVars, loginVars, typingAll, clientVars>>

\* ------------------------------------------------------------------------
\* Client: queries against the remote store (results under row-level security
\* for the identity uid of the request's session)
\* ------------------------------------------------------------------------
Kinds == {"messages", "conversations", "friends", "friendRequests"}

\* fetchMessages: .from('messages').eq('conversation_id', c)
\*                .order('created_at', { ascending: true })
ReadMessages(uid, c) ==
    LET InConv(m) == m.conversation_id = c
    IN IF uid \in ParticipantsOf(c) THEN SelectSeq(db_messages, InConv) ELSE <<>>

\* the conversation ids, latest updated_at first
ConvIdsDesc ==
    [i \in 1..Len(updated_at) |-> updated_at[Len(updated_at) + 1 - i]]

\* messages(...) of a conversation: sorted by created_at descending, slice(0, 1)
Preview(uid, c) ==
    LET log == ReadMessages(uid, c)
    IN IF log = <<>> THEN <<>> ELSE <<log[Len(log)]>>

\* fetchConversations: .from('conversations').select(...).order('updated_at', desc)
ReadConversations(uid) ==
    LET Visible(id) == uid \in ParticipantsOf(id)
        ids == SelectSeq(ConvIdsDesc, Visible)
    IN [i \in 1..Len(ids) |-> [id |-> ids[i], messages |-> Preview(uid, ids[i])]]

\* fetchFriends: rpc get_user_friends
ReadFriends(uid) == {p \in Users \ {uid} : AreFriends(uid, p)}

\* fetchFriendRequests: .from('friend_requests').or(sender_id.eq / receiver_id.eq)
ReadFriendRequests(uid) ==
    {q \in friend_requests : q.sender_id = uid \/ q.receiver_id = uid}

Read(k, c) ==
    CASE k = "messages" -> ReadMessages(session, c)
      [] k = "conversations" -> ReadConversations(session)
      [] k = "friends" -> ReadFriends(session)
      [] k = "friendRequests" -> ReadFriendRequests(session)

\* received / sent of fetchFriendRequests (ChatContext.tsx:228-229)
Received(rows) == {q \in rows : q.receiver_id = Self /\ q.status = "pending"}
Sent(rows) == {q \in rows : q.sender_id = Self /\ q.status = "pending"}

\* ------------------------------------------------------------------------
\* Client: fetches in flight
\* ------------------------------------------------------------------------
\* fetches[k] holds the awaited queries of kind k.  Requests of one kind that
\* carry the same result are indistinguishable and are kept once; last marks
\* the result of the latest-issued request of the kind.
Canon(S) ==
    {[conv |-> e.conv, data |-> e.data,
      last |-> \E g \in S : g.conv = e.conv /\ g.data = e.data /\ g.last] : e \in S}

Earlier(S) == {[e EXCEPT !.last = FALSE] : e \in S}

NewFetch(k, c) ==
    [conv |-> IF k = "messages" THEN c ELSE Null, data |-> Read(k, c), last |-> TRUE]

\* the calls fetchX() of a handler: each query is sent and awaited
IssueAll(ks, c) ==
    /\ fetches' = [k \in Kinds |->
          IF k \in ks THEN Canon(Earlier(fetches[k]) \cup {NewFetch(k, c)})
          ELSE fetches[k]]
    /\ latestRead' = [k \in Kinds |-> IF k \in ks THEN <<>> ELSE latestRead[k]]

\* the calls fetchX() a handler makes after its own awaited write returned:
\* the queries read the state the write left
IssueAllAfter(ks, c) ==
    /\ fetches' = [k \in Kinds |->
          IF k \in ks
          THEN Canon(Earlier(fetches[k]) \cup {[NewFetch(k, c) EXCEPT !.data = Read(k, c)']})
          ELSE fetches[k]]
    /\ latestRead' = [k \in Kinds |-> IF k \in ks THEN <<>> ELSE latestRead[k]]

\* a request still on its way is answered from the store's state when it
\* arrives: the result is re-read
FetchRead(k, f) ==
    /\ f \in fetches[k]
    /\ f.data # Read(k, f.conv)
    /\ fetches' = [fetches EXCEPT ![k] =
          Canon((fetches[k] \ {f}) \cup {[f EXCEPT !.data = Read(k, f.conv)]})]
    /\ UNCHANGED <<dbConv, call, dbFriends, dbMessages, presenceVars, loginVars,
                   typingAll, authVars, currentConversation,
                   storeVars, subVars, latestRead>>

\* (mutant) the fetched rows are appended to the list
MessagesAfterFetch_Appending(f) == msgStore \o f.data

\* fetchMessages: setMessages(typedMessages)
MessagesAfterFetch(f) == f.data

\* the awaited query of a fetch returns: the set...() calls after the await
FetchResolve(k, f) ==
    /\ f \in fetches[k]
    /\ fetches' = [fetches EXCEPT ![k] = fetches[k] \ {f}]
    /\ latestRead' = IF f.last THEN [latestRead EXCEPT ![k] = <<f.data>>]
                     ELSE latestRead
    /\ msgStore' = IF k = "messages" THEN MessagesAfterFetch(f) ELSE msgStore
    /\ convStore' = IF k = "conversations" THEN f.data ELSE convStore
    /\ isLoading' = IF k = "conversations" THEN FALSE ELSE isLoading
    /\ friends' = IF k = "friends" THEN f.data ELSE friends
    /\ friendRequests' = IF k = "friendRequests" THEN Received(f.data)
                         ELSE friendRequests
    /\ pendingRequests' = IF k = "friendRequests" THEN Sent(f.data)
                          ELSE pendingRequests
    /\ UNCHANGED <<dbConv, call, dbFriends, dbMessages, presenceVars, loginVars,
                   typingAll, authVars, currentConversation,
                   subVars>>

\* (mutant) fetchConversations without its finally block
LoadingAfterFetchFailure_Kept == isLoading

\* "finally { setIsLoading(false); }" of fetchConversations
LoadingAfterFetchFailure == FALSE

\* the awaited query of a fetch returns an error ("if (error) { ...; return; }")
\* or throws (the catch block): no set...() call is made; fetchConversations
\* passes through its finally block
FetchFail(k, f) ==
    /\ f \in fetches[k]
    /\ fetches' = [fetches EXCEPT ![k] = fetches[k] \ {f}]
    /\ isLoading' = IF k = "conversations" THEN LoadingAfterFetchFailure ELSE isLoading
    /\ UNCHANGED <<dbConv, call, dbFriends, dbMessages, presenceVars, loginVars,
                   typingAll, authVars, currentConversation, convStore, msgStore,
                   friends, friendRequests, pendingRequests, subVars, latestRead>>

\* ------------------------------------------------------------------------
\* ChatProvider: the [user] effects (ChatContext.tsx:102-123, 142-153)
\* ------------------------------------------------------------------------
Unsubscribe(chs, id) == [chs EXCEPT ![id].subscribed = FALSE]

Subscribed == {id \in 1..Len(channels) : channels[id].subscribed}

\* the cleanup closes over `channel` as it was in the render that ran the
\* effect: the value before that effect's own setChannel(newChannel)
CleanupTarget == cleanupChannel

\* a render with a changed user: the cleanups of the previous run, then the
\* effect bodies.  The new cleanup captures the channel state of this render;
\* setupRealtimeSubscription's handlers capture currentConversation.
UserEffects(newUser) ==
    LET closed == IF CleanupTarget # Null THEN Unsubscribe(channels, CleanupTarget)
                  ELSE channels
    IN /\ cleanupChannel' = channel
       /\ IF newUser # Null
          THEN /\ Len(channels) < MaxChannels
               /\ IssueAll({"friends", "friendRequests", "conversations"}, Null)
               /\ isLoading' = TRUE
               /\ channels' = Append(closed, [subscribed |-> TRUE,
                                              conv |-> currentConversation,
                                              since |-> Len(db_messages)])
               /\ channel' = Len(channels) + 1
          ELSE /\ channels' = closed
               /\ UNCHANGED <<channel, fetches, latestRead, isLoading>>
       /\ UNCHANGED <<currentConversation, convStore, msgStore, friends,
                      friendRequests, pendingRequests>>

\* the [user] status effect of that render: the previous run's cleanup calls
\* updateUserStatus('offline') and the body updateUserStatus('online'), each
\* under the `user` of its own closure; neither call is awaited.  Without a
\* session the rpc runs with auth.uid() = NULL and updates no row.
StatusEffect(oldUser, newUser) ==
    IF session' = Null THEN {}
    ELSE (IF oldUser # Null THEN {"offline"} ELSE {})
         \cup (IF newUser # Null THEN {"online"} ELSE {})

\* update_user_status(s) of a call under way runs at the database
ApplyStatus(s) ==
    /\ s \in statusCalls
    /\ presence' = s
    /\ statusCalls' = statusCalls \ {s}
    /\ UNCHANGED <<dbConv, call, dbFriends, dbMessages, loginVars, typingAll,
                   clientVars>>

\* setUser(v): a new profile object or null; setting null over null renders
\* nothing
SetUser(newUser) ==
    /\ user' = newUser
    /\ statusCalls' = statusCalls \cup StatusEffect(user, newUser)
    /\ IF newUser = Null /\ user = Null
       THEN UNCHANGED <<currentConversation, storeVars, subVars, fetchVars>>
       ELSE UserEffects(newUser)

\* ------------------------------------------------------------------------
\* AuthProvider
\* ------------------------------------------------------------------------
\* login: setIsLoading(true), setError(null); signInWithPassword succeeds,
\* the provider emits SIGNED_IN, whose listener defers fetchUserProfile
\* (setTimeout 0) and resets the loading flag; login returns true
login ==
    /\ session = Null
    /\ logoutPc = "idle"
    /\ loginPc = "idle"
    /\ profileFetches < MaxProfileFetches
    /\ session' = Self
    /\ profileFetches' = profileFetches + 1
    /\ authIsLoading' = FALSE
    /\ error' = NoError
    /\ loginReturn' = "true"
    /\ UNCHANGED <<dbConv, call, dbFriends, dbMessages, presenceVars, typingAll, user,
                   logoutPc, loginPc, currentConversation, storeVars, subVars,
                   fetchVars>>

\* login, up to the await of a signInWithPassword that will not succeed:
\* setIsLoading(true); setError(null).  The login form is rendered while
\* user is null.
LoginBegin ==
    /\ session = Null
    /\ user = Null
    /\ logoutPc = "idle"
    /\ loginPc = "idle"
    /\ loginPc' = "signin"
    /\ authIsLoading' = TRUE
    /\ error' = NoError
    /\ UNCHANGED <<dbConv, call, dbFriends, dbMessages, presenceVars, typingAll,
                   loginReturn, authVars, currentConversation, storeVars, subVars,
                   fetchVars>>

\* error.message of a rejected sign-in
ProviderMessages == {"Invalid login credentials"}

\* what login() sets in its catch block
LoginException == "Login failed. Please try again."

\* (mutant) the failure paths leave the loading flag as it is
LoadingAfterLoginFailure_Kept == authIsLoading

\* setIsLoading(false) on both failure paths of login
LoadingAfterLoginFailure == FALSE

\* the failure paths of login: `if (error)` with the provider's message
\* and `catch` with the fixed one; both reset the flag and return false
LoginFailed(message) ==
    /\ loginPc = "signin"
    /\ loginPc' = "idle"
    /\ error' = message
    /\ authIsLoading' = LoadingAfterLoginFailure
    /\ loginReturn' = "false"
    /\ UNCHANGED <<dbConv, call, dbFriends, dbMessages, presenceVars, typingAll,
                   authVars, currentConversation, storeVars, subVars, fetchVars>>

\* the provider rejects the credentials: signInWithPassword returns { error }
LoginRejected == \E message \in ProviderMessages : LoginFailed(message)

\* signInWithPassword throws
LoginThrew == LoginFailed(LoginException)

\* onAuthStateChange with a session (SIGNED_IN, TOKEN_REFRESHED, ...):
\* the profile fetch is deferred, setIsLoading(false)
AuthStateChange ==
    /\ session # Null
    /\ profileFetches < MaxProfileFetches
    /\ profileFetches' = profileFetches + 1
    /\ authIsLoading' = FALSE
    /\ UNCHANGED <<dbConv, call, dbFriends, dbMessages, presenceVars, typingAll, error,
                   loginPc, loginReturn, session, user, logoutPc,
                   currentConversation, storeVars, subVars, fetchVars>>

\* the listener's own rpc('update_user_status', online) after its awaited
\* fetchUserProfile, sent under the session if there is one
ListenerStatus == IF session # Null THEN {"online"} ELSE {}

\* fetchUserProfile returns: setUser(profile) on data, nothing on error; a
\* fetch that the listener started is followed by the listener's status
\* call, one that getInitialSession started is not
ProfileFetched(ok) ==
    /\ profileFetches > 0
    /\ profileFetches' = profileFetches - 1
    /\ UNCHANGED <<dbConv, call, dbFriends, dbMessages, presence, loginVars, typingAll,
                   session, logoutPc>>
    /\ IF ok THEN SetUser(Self)
       ELSE /\ \E calls \in {{}, ListenerStatus} : statusCalls' = statusCalls \cup calls
            /\ UNCHANGED <<user, currentConversation, storeVars, subVars, fetchVars>>

\* logout(): if (user) await rpc('update_user_status', offline)
logout ==
    /\ user # Null
    /\ logoutPc = "idle"
    /\ logoutPc' = "offline"
    /\ UNCHANGED <<dbConv, call, dbFriends, dbMessages, presenceVars, loginVars,
                   typingAll, session, user, profileFetches, currentConversation,
                   storeVars, subVars, fetchVars>>

\* the awaited status rpc ran under the session, if any, and returned (its
\* result is not read); supabase.auth.signOut() is called
LogoutSignOut ==
    /\ logoutPc = "offline"
    /\ logoutPc' = "signout"
    /\ presence' = IF session # Null THEN "offline" ELSE presence
    /\ UNCHANGED <<dbConv, call, dbFriends, dbMessages, statusCalls, loginVars,
                   typingAll, session, user, profileFetches, currentConversation,
                   storeVars, subVars, fetchVars>>

\* the awaited status rpc throws: the catch block logs and logout returns
LogoutStatusThrew ==
    /\ logoutPc = "offline"
    /\ logoutPc' = "idle"
    /\ UNCHANGED <<dbConv, call, dbFriends, dbMessages, presenceVars, loginVars,
                   typingAll, session, user, profileFetches, currentConversation,
                   storeVars, subVars, fetchVars>>

\* signOut returned: the session is gone, the listener's setUser(null) and
\* setIsLoading(false) and logout's setUser(null) have run
LogoutDone ==
    /\ logoutPc = "signout"
    /\ logoutPc' = "idle"
    /\ session' = Null
    /\ authIsLoading' = FALSE
    /\ SetUser(Null)
    /\ UNCHANGED <<dbConv, call, dbFriends, dbMessages, presence, typingAll, error,
                   loginPc, loginReturn, profileFetches>>

\* signOut returned { error }: the session stays, the error is logged and
\* setUser(null) runs
LogoutSignOutError ==
    /\ logoutPc = "signout"
    /\ logoutPc' = "idle"
    /\ UNCHANGED <<dbConv, call, dbFriends, dbMessages, presence, loginVars, typingAll,
                   session, profileFetches>>
    /\ SetUser(Null)

\* signOut throws: the catch block logs and logout returns
LogoutSignOutThrew ==
    /\ logoutPc = "signout"
    /\ logoutPc' = "idle"
    /\ UNCHANGED <<dbConv, call, dbFriends, dbMessages, presenceVars, loginVars,
                   typingAll, session, user, profileFetches, currentConversation,
                   storeVars, subVars, fetchVars>>

\* the session ends without logout(): onAuthStateChange with no session,
\* setUser(null), setIsLoading(false)
SessionLost ==
    /\ session # Null
    /\ logoutPc = "idle"
    /\ session' = Null
    /\ authIsLoading' = FALSE
    /\ SetUser(Null)
    /\ UNCHANGED <<dbConv, call, dbFriends, dbMessages, presence, typingAll, error,
                   loginPc, loginReturn, profileFetches, logoutPc>>

\* ------------------------------------------------------------------------
\* ChatProvider: operations
\* ------------------------------------------------------------------------
VisibleConvs == {c.id : c \in {d \in conversations : Self \in ParticipantsOf(d.id)}}

\* setCurrentConversation(c) and the [currentConversation] effect
\* (ChatContext.tsx:156-162)
setCurrentConversation(c) ==
    /\ user # Null
    /\ c # currentConversation
    /\ currentConversation' = c
    /\ IF c # Null
       THEN /\ IssueAll({"messages"}, c)
            /\ UNCHANGED msgStore
       ELSE /\ msgStore' = <<>>
            /\ UNCHANGED fetchVars
    /\ UNCHANGED <<dbConv, call, dbFriends, dbMessages, presenceVars, loginVars,
                   typingAll, authVars, convStore, friends,
                   friendRequests, pendingRequests, isLoading, subVars>>

\* the messages INSERT handler reads currentConversation from the closure of
\* the render that called setupRealtimeSubscription
HandlerConversation(ch) == channels[ch].conv

\* the refreshes of the messages INSERT handler (ChatContext.tsx:363-374)
MessageEventKinds(ch, m) ==
    IF m.conversation_id = HandlerConversation(ch)
    THEN {"messages", "conversations"} ELSE {"conversations"}

\* the 'messages' INSERT event of row i reaches channel ch: a row inserted
\* after the channel subscribed, delivered at any later time
DeliverMessageInsert(ch, i) ==
    /\ ch \in Subscribed
    /\ session # Null
    /\ i \in 1..Len(db_messages)
    /\ i > channels[ch].since
    /\ Self \in ParticipantsOf(db_messages[i].conversation_id)
    /\ IssueAll(MessageEventKinds(ch, db_messages[i]), HandlerConversation(ch))
    /\ isLoading' = TRUE
    /\ UNCHANGED <<dbConv, call, dbFriends, dbMessages, presenceVars, loginVars,
                   typingAll, authVars, currentConversation,
                   convStore, msgStore, friends, friendRequests, pendingRequests,
                   subVars>>

Tables == {"conversation_participants", "conversations", "friend_requests",
           "friendships", "profiles"}

\* the refresh of each of the other handlers (ChatContext.tsx:376-435)
TableKind(t) ==
    CASE t = "conversation_participants" -> "conversations"
      [] t = "conversations" -> "conversations"
      [] t = "friend_requests" -> "friendRequests"
      [] t = "friendships" -> "friends"
      [] t = "profiles" -> "friends"

HasVisibleRow(t) ==
    CASE t = "conversation_participants" -> VisibleConvs # {}
      [] t = "conversations" -> VisibleConvs # {}
      [] t = "friend_requests" -> ReadFriendRequests(Self) # {}
      [] t = "friendships" -> ReadFriends(Self) # {}
      [] t = "profiles" -> TRUE

\* a change event of another table reaches channel ch (changes made by other
\* users to their profiles, requests and conversations arrive at any time)
DeliverTableEvent(ch, t) ==
    /\ ch \in Subscribed
    /\ session # Null
    /\ HasVisibleRow(t)
    /\ IssueAll({TableKind(t)}, Null)
    /\ isLoading' = IF TableKind(t) = "conversations" THEN TRUE ELSE isLoading
    /\ UNCHANGED <<dbConv, call, dbFriends, dbMessages, presenceVars, loginVars,
                   typingAll, authVars, currentConversation,
                   convStore, msgStore, friends, friendRequests, pendingRequests,
                   subVars>>

\* String.prototype.trim: leading and trailing whitespace removed
RECURSIVE TrimStart(_)
TrimStart(s) ==
    IF s # <<>> /\ Head(s) \in Whitespace THEN TrimStart(Tail(s)) ELSE s

RECURSIVE TrimEnd(_)
TrimEnd(s) ==
    IF s # <<>> /\ s[Len(s)] \in Whitespace
    THEN TrimEnd(SubSeq(s, 1, Len(s) - 1)) ELSE s

Trim(s) == TrimEnd(TrimStart(s))

\* (mutant) the guard as "!content"
Blank_Untrimmed(content) == content = <<>>

\* the guard "!content.trim()"
Blank(content) == Trim(content) = <<>>

\* the insert into messages under the RLS insert policy (auth.uid() =
\* sender_id and the sender participates in the conversation)
InsertAccepted(c) == session # Null /\ session = user /\ session \in ParticipantsOf(c)

\* (mutant) the update is issued whatever the insert returned
BumpIssued_Always(ok) == TRUE

\* "if (error) { ...; return; }" before the update of conversations.updated_at
BumpIssued(ok) == ok

\* .update({ updated_at: now }).eq('id', c) under the policy "Users can
\* update their conversations" (the creator or a participant): the row
\* becomes the latest updated one
Bumped(uid, c) ==
    LET Other(id) == id # c
    IN IF uid \in ParticipantsOf(c) \/ \E r \in conversations : r.id = c /\ r.created_by = uid
       THEN Append(SelectSeq(updated_at, Other), c)
       ELSE updated_at

\* (mutant) an optimistic insert into the message list
MsgStoreAfterSend_Optimistic(row, ok) == Append(msgStore, row)

\* sendMessage calls no setMessages
MsgStoreAfterSend(row, ok) == msgStore

NoSend == [conversation_id |-> Null, content |-> <<>>, bumped |-> FALSE]

\* sendMessage(c, content): returns at once without a user or on blank
\* content; else the insert of the trimmed text, which the backend accepts or
\* answers with an error; on success the update of conversations.updated_at
\* is issued.
SendMessageBody(c, content) ==
    /\ user # Null
    /\ LET row == [id |-> Len(db_messages) + 1, conversation_id |-> c,
                   sender_id |-> user, content |-> Trim(content)]
           ok == ~ Blank(content) /\ InsertAccepted(c)
       IN /\ ok => Len(db_messages) < MaxMessages
          /\ db_messages' = IF ok THEN Append(db_messages, row) ELSE db_messages
          /\ lastSend' = [conversation_id |-> c, content |-> content,
                          bumped |-> ~ Blank(content) /\ BumpIssued(ok)]
          /\ updated_at' = IF ~ Blank(content) /\ BumpIssued(ok)
                           THEN Bumped(session, c) ELSE updated_at
          /\ msgStore' = IF Blank(content) THEN msgStore ELSE MsgStoreAfterSend(row, ok)
    /\ UNCHANGED <<conversations, conversation_participants, call, dbFriends, message_rows, presenceVars, loginVars,
                   authVars, currentConversation, convStore, friends,
                   friendRequests, pendingRequests, isLoading, subVars, fetchVars>>

\* a call of the context's sendMessage from outside ChatArea's form
sendMessage(c, content) ==
    /\ SendMessageBody(c, content)
    /\ UNCHANGED typingAll

\* ------------------------------------------------------------------------
\* Typing: startTyping, stopTyping and ChatArea's input handlers
\* ------------------------------------------------------------------------
\* .from('typing_indicators').upsert({conversation_id, user_id, is_typing}):
\* the payload carries no id and the call names no onConflict, so the
\* statement resolves conflicts on the primary key id only; with a row of
\* (conversation_id, user_id) present the insert violates UNIQUE and the
\* statement is rejected (the returned error is not read)
Upsert(c, flag) ==
    IF \E r \in typing_indicators : r.conversation_id = c /\ r.user_id = user
    THEN typing_indicators
    ELSE typing_indicators \cup
            {[conversation_id |-> c, user_id |-> user, is_typing |-> flag]}

\* startTyping(c)
startTyping(c) ==
    IF user = Null THEN UNCHANGED typingDb
    ELSE /\ typing_indicators' = Upsert(c, TRUE)
         /\ typingCall' = [typingCall EXCEPT ![c] = "start"]
         /\ startsSinceStop' = startsSinceStop + 1

\* stopTyping(c)
stopTyping(c) ==
    IF user = Null THEN UNCHANGED typingDb
    ELSE /\ typing_indicators' = Upsert(c, FALSE)
         /\ typingCall' = [typingCall EXCEPT ![c] = "stop"]
         /\ startsSinceStop' = 0

\* clearTimeout(typingTimeoutRef.current)
ClearTimeout(ts, ref) ==
    IF ref # Null THEN [ts EXCEPT ![ref].pending = FALSE] ELSE ts

PendingTimers == {t \in 1..Len(timers) : timers[t].pending}

\* ChatArea renders the form only with a current conversation whose other
\* participant it finds in the conversation list
InputShown ==
    /\ user # Null
    /\ currentConversation # Null
    /\ \E i \in 1..Len(convStore) : convStore[i].id = currentConversation

\* text typed into the input
Inputs == {<<" ">>, <<"b">>}

\* (mutant) every keystroke calls startTyping
StartNeeded_Always == currentConversation # Null

\* if (!isTyping && currentConversation)
StartNeeded == ~ isTyping /\ currentConversation # Null

\* handleInputChange: setNewMessage; startTyping unless isTyping; the timer
\* of typingTimeoutRef is cleared and a new one of 1000 ms is set, whose
\* callback closes over currentConversation
handleInputChange(value) ==
    /\ InputShown
    /\ Len(timers) < MaxTimers
    /\ newMessage' = value
    /\ isTyping' = TRUE
    /\ IF StartNeeded THEN startTyping(currentConversation) ELSE UNCHANGED typingDb
    /\ timers' = Append(ClearTimeout(timers, typingTimeoutRef),
                        [conv |-> currentConversation, pending |-> TRUE])
    /\ typingTimeoutRef' = Len(timers) + 1
    /\ UNCHANGED <<dbConv, call, dbFriends, dbMessages, presenceVars, loginVars,
                   clientVars>>

\* the timer's callback after 1000 ms without being cleared:
\* setIsTyping(false); stopTyping(conversation of its closure)
TypingTimeout(t) ==
    /\ t \in PendingTimers
    /\ timers' = [timers EXCEPT ![t].pending = FALSE]
    /\ isTyping' = FALSE
    /\ stopTyping(timers[t].conv)
    /\ UNCHANGED <<dbConv, call, dbFriends, dbMessages, presenceVars, loginVars,
                   newMessage, typingTimeoutRef, clientVars>>

\* handleSendMessage: returns on blank text; else clears the input, the
\* typing flag and the timer, calls stopTyping(currentConversation) and
\* sendMessage(currentConversation, newMessage.trim())
handleSendMessage ==
    /\ InputShown
    /\ ~ Blank(newMessage)
    /\ newMessage' = <<>>
    /\ isTyping' = FALSE
    /\ timers' = ClearTimeout(timers, typingTimeoutRef)
    /\ stopTyping(currentConversation)
    /\ SendMessageBody(currentConversation, Trim(newMessage))
    /\ UNCHANGED typingTimeoutRef

\* acceptFriendRequest(id) on the client: the rpc, then fetchFriends() and
\* fetchFriendRequests() unless it returned an error
ClientAccept(id) ==
    /\ user # Null
    /\ UNCHANGED <<dbConv, call, invite_code, dbMessages, presenceVars, loginVars,
                   typingAll, authVars, currentConversation,
                   storeVars, subVars>>
    /\ IF AcceptFound(session, id) # {}
       THEN /\ \E req \in AcceptFound(session, id) :
                 /\ friend_requests' = SetStatus(id, "accepted")
                 /\ friendships' = FriendshipsAfterAccept(req)
                 /\ acceptLog' = acceptLog \cup {id}
                 /\ lastOp' = Outcome("accept", session, id, TRUE)
            /\ IssueAllAfter({"friends", "friendRequests"}, Null)
       ELSE /\ lastOp' = Outcome("accept", session, id, FALSE)
            /\ UNCHANGED <<friend_requests, friendships, acceptLog, fetchVars>>

\* the codes Math.random().toString(36) can produce
InviteCodes == {"c1", "c2"}

\* generateInviteCode() on the client, drawing `code': null without a user;
\* else the update of profiles.invite_code where id = user.id, which the
\* policy "Users can update own profile" restricts to the row of auth.uid().
\* The request fails or the backend answers with an error (the code is held
\* by another profile: invite_code is UNIQUE) and null is returned; else the
\* update returns no error, whether it matched a row or not, and the code is
\* returned.
ClientGenerateInviteCode(code) ==
    /\ user # Null
    /\ \E requestFailed \in BOOLEAN :
          IF requestFailed \/ \E t \in Users \ {user} : invite_code[t] = code
          THEN /\ UNCHANGED invite_code
               /\ lastOp' = Outcome("generate", user, Null, FALSE)
          ELSE /\ invite_code' = IF session = user
                                 THEN [invite_code EXCEPT ![user] = code]
                                 ELSE invite_code
               /\ lastOp' = Outcome("generate", user, Null, TRUE)
    /\ UNCHANGED <<friend_requests, friendships, acceptLog, dbConv, call, dbMessages,
                   presenceVars, loginVars, typingAll, clientVars>>

\* sendFriendRequestByInvite(code) on the client: the rpc, then
\* fetchFriendRequests() unless it returned an error
ClientInvite(code) ==
    /\ user # Null
    /\ UNCHANGED <<dbConv, call, friendships, invite_code, acceptLog, dbMessages,
                   presenceVars, loginVars, typingAll,
                   authVars, currentConversation, storeVars, subVars>>
    /\ IF \E t \in InviteTargets(session, code) : InviteAllowed(session, t)
       THEN /\ Cardinality(friend_requests) < MaxRequests
            /\ \E t \in InviteTargets(session, code) :
                  /\ friend_requests' = InsertRequest(session, t)
                  /\ lastOp' = Outcome("invite", session, t, TRUE)
            /\ IssueAllAfter({"friendRequests"}, Null)
       ELSE /\ lastOp' = Outcome("invite", session, Null, FALSE)
            /\ UNCHANGED <<friend_requests, fetchVars>>

\* Before any use: no timestamped row, the profile offline with no status
\* call under way, no typing indicator, AuthProvider and ChatArea as
\* constructed.
InitAdded ==
    /\ message_rows = {}
    /\ presence = "offline"
    /\ statusCalls = {}
    /\ typing_indicators = {}
    /\ typingCall = [c \in 1..MaxConvs |-> "none"]
    /\ startsSinceStop = 0
    /\ authIsLoading = FALSE
    /\ error = NoError
    /\ loginPc = "idle"
    /\ loginReturn = "none"
    /\ newMessage = <<>>
    /\ isTyping = FALSE
    /\ typingTimeoutRef = Null
    /\ timers = <<>>

\* ------------------------------------------------------------------------
\* Specifications
\* ------------------------------------------------------------------------
Init ==
    /\ InitAdded
    /\ conversations = {}
    /\ conversation_participants = {}
    /\ updated_at = <<>>
    /\ call = [u \in Users |-> IdleCall]
    /\ friend_requests = {}
    /\ friendships = {}
    /\ invite_code = [u \in Users |-> NoCode]
    /\ acceptLog = {}
    /\ lastOp = Outcome("none", Null, Null, TRUE)
    /\ db_messages = <<>>
    /\ lastSend = NoSend
    /\ session = Null
    /\ user = Null
    /\ profileFetches = 0
    /\ logoutPc = "idle"
    /\ currentConversation = Null
    /\ convStore = <<>>
    /\ msgStore = <<>>
    /\ friends = {}
    /\ friendRequests = {}
    /\ pendingRequests = {}
    /\ isLoading = FALSE
    /\ channel = Null
    /\ cleanupChannel = Null
    /\ channels = <<>>
    /\ fetches = [k \in Kinds |-> {}]
    /\ latestRead = [k \in Kinds |-> <<>>]

NextResolver ==
    \/ \E u \in Users, other \in Users : RpcBegin(u, other)
    \/ \E u \in Users : RpcSelect(u)
    \/ \E u \in Users : RpcInsert(u)

SpecResolver == Init /\ [][NextResolver]_vars

\* get_or_create_conversation called one call at a time per pair: a call for
\* a pair starts only while no call for the same pair is in progress
OneAtATime(u, other) ==
    \A v \in Users : InProgress(v) => {v, call[v].other_user_id} # {u, other}

NextSequential ==
    \/ \E u \in Users, other \in Users : OneAtATime(u, other) /\ RpcBegin(u, other)
    \/ \E u \in Users : RpcSelect(u)
    \/ \E u \in Users : RpcInsert(u)

SpecSequential == Init /\ [][NextSequential]_vars

NextFriends ==
    \/ \E u \in Users, target \in Users : sendFriendRequest(u, target)
    \/ \E u \in Users, code \in Codes : sendFriendRequestByInvite(u, code)
    \/ \E u \in Users, id \in CallIds : acceptFriendRequest(u, id)
    \/ \E u \in Users, id \in CallIds : rejectFriendRequest(u, id)
    \/ \E u \in Users, code \in Codes : generateInviteCode(u, code)

SpecFriends == Init /\ [][NextFriends]_vars

\* The client starts on a store that already holds two direct conversations of
\* Self with one message each, a pending request 2 -> Self and the friendship
\* of an accepted request 3 -> Self; the provider may hold a persisted session
\* (then the INITIAL_SESSION event and getInitialSession each fetch the profile).
InitClient ==
    /\ InitAdded
    /\ conversations = {[id |-> 1, type |-> "direct", created_by |-> 1],
                        [id |-> 2, type |-> "direct", created_by |-> 3]}
    /\ conversation_participants =
          {[conversation_id |-> 1, user_id |-> 1], [conversation_id |-> 1, user_id |-> 2],
           [conversation_id |-> 2, user_id |-> 3], [conversation_id |-> 2, user_id |-> 1]}
    /\ updated_at = <<1, 2>>
    /\ call = [u \in Users |-> IdleCall]
    /\ friend_requests =
          {[id |-> RequestId(2, 1), sender_id |-> 2, receiver_id |-> 1, status |-> "pending"],
           [id |-> RequestId(3, 1), sender_id |-> 3, receiver_id |-> 1, status |-> "accepted"]}
    /\ friendships = {FriendshipOf(3, 1)}
    /\ invite_code = [u \in Users |-> NoCode]
    /\ acceptLog = {RequestId(3, 1)}
    /\ lastOp = Outcome("none", Null, Null, TRUE)
    /\ db_messages = <<[id |-> 1, conversation_id |-> 1, sender_id |-> 2,
                        content |-> <<"a">>],
                       [id |-> 2, conversation_id |-> 2, sender_id |-> 3,
                        content |-> <<"b">>]>>
    /\ lastSend = NoSend
    /\ session \in {Null, Self}
    /\ user = Null
    /\ profileFetches = IF session = Null THEN 0 ELSE 2
    /\ logoutPc = "idle"
    /\ currentConversation = Null
    /\ convStore = <<>>
    /\ msgStore = <<>>
    /\ friends = {}
    /\ friendRequests = {}
    /\ pendingRequests = {}
    /\ isLoading = FALSE
    /\ channel = Null
    /\ cleanupChannel = Null
    /\ channels = <<>>
    /\ fetches = [k \in Kinds |-> {}]
    /\ latestRead = [k \in Kinds |-> <<>>]

\* Session lifecycle and the realtime subscription: sign-in, auth events,
\* profile fetches, logout, session loss and conversation switches (the
\* store fetches stay in flight).
NextSession ==
    \/ login
    \/ AuthStateChange
    \/ \E ok \in BOOLEAN : ProfileFetched(ok)
    \/ logout
    \/ LogoutSignOut
    \/ LogoutDone
    \/ SessionLost
    \/ \E c \in VisibleConvs \cup {Null} : setCurrentConversation(c)

SpecSession == InitClient /\ [][NextSession]_vars

\* a conversation id that no row carries
NoConv == MaxConvs + 1

\* The message log: conversation switches, sends, 'message created' events
\* and log fetches resolving in any order.
NextMessages ==
    \/ login
    \/ ProfileFetched(TRUE)
    \/ \E c \in VisibleConvs \cup {Null} : setCurrentConversation(c)
    \/ \E c \in VisibleConvs \cup {NoConv} : sendMessage(c, <<"b">>)
    \/ \E ch \in 1..MaxChannels, i \in 1..MaxMessages : DeliverMessageInsert(ch, i)
    \/ \E f \in fetches["messages"] : FetchResolve("messages", f)

SpecMessages == InitClient /\ [][NextMessages]_vars

\* The stores over one restored session: conversation switches, fetch
\* results arriving in any order, logout.
NextStores ==
    \/ ProfileFetched(TRUE)
    \/ \E c \in VisibleConvs \cup {Null} : setCurrentConversation(c)
    \/ \E k \in Kinds : \E f \in fetches[k] : FetchResolve(k, f)
    \/ logout
    \/ LogoutSignOut
    \/ LogoutDone

SpecStores == InitClient /\ [][NextStores]_vars

\* Refreshes driven by change events while the remote store changes: sends,
\* accepts, events of every category, fetch results arriving in any order.
NextRefresh ==
    \/ login
    \/ ProfileFetched(TRUE)
    \/ \E c \in VisibleConvs : sendMessage(c, <<"b">>)
    \/ \E id \in CallIds : ClientAccept(id)
    \/ \E ch \in 1..MaxChannels, i \in 1..MaxMessages : DeliverMessageInsert(ch, i)
    \/ \E ch \in 1..MaxChannels, t \in Tables : DeliverTableEvent(ch, t)
    \/ \E k \in Kinds : \E f \in fetches[k] : FetchRead(k, f)
    \/ \E k \in Kinds : \E f \in fetches[k] : FetchResolve(k, f)

SpecRefresh == InitClient /\ [][NextRefresh]_vars

\* The client's refreshes when a query can fail: the fetches of the [user]
\* effects, of a conversation switch and of the change events, each returning
\* its rows or an error.
NextFetchError ==
    \/ ProfileFetched(TRUE)
    \/ \E c \in VisibleConvs : setCurrentConversation(c)
    \/ \E ch \in 1..MaxChannels, t \in Tables : DeliverTableEvent(ch, t)
    \/ \E k \in Kinds : \E f \in fetches[k] : FetchResolve(k, f)
    \/ \E k \in Kinds : \E f \in fetches[k] : FetchFail(k, f)

SpecFetchError == InitClient /\ [][NextFetchError]_vars

\* Sending: any text to a conversation of the user or to one that does not
\* exist, between conversation switches.
NextSend ==
    \/ login
    \/ ProfileFetched(TRUE)
    \/ \E c \in VisibleConvs \cup {Null} : setCurrentConversation(c)
    \/ \E c \in VisibleConvs \cup {NoConv}, content \in Contents : sendMessage(c, content)

SpecSend == InitClient /\ [][NextSend]_vars

\* The client on a database without conversations, requests or friendships.
InitInvite ==
    /\ InitAdded
    /\ conversations = {}
    /\ conversation_participants = {}
    /\ updated_at = <<>>
    /\ call = [u \in Users |-> IdleCall]
    /\ friend_requests = {}
    /\ friendships = {}
    /\ invite_code = [u \in Users |-> NoCode]
    /\ acceptLog = {}
    /\ lastOp = Outcome("none", Null, Null, TRUE)
    /\ db_messages = <<>>
    /\ lastSend = NoSend
    /\ session = Null
    /\ user = Null
    /\ profileFetches = 0
    /\ logoutPc = "idle"
    /\ currentConversation = Null
    /\ convStore = <<>>
    /\ msgStore = <<>>
    /\ friends = {}
    /\ friendRequests = {}
    /\ pendingRequests = {}
    /\ isLoading = FALSE
    /\ channel = Null
    /\ cleanupChannel = Null
    /\ channels = <<>>
    /\ fetches = [k \in Kinds |-> {}]
    /\ latestRead = [k \in Kinds |-> <<>>]

\* Friend requests by invite code between the client's identity and the other
\* identities: either side generates a code, sends by code and accepts a
\* received request (the client those its list shows); the client's refreshes
\* follow its own calls and the change events.
NextInvite ==
    \/ login
    \/ ProfileFetched(TRUE)
    \/ \E u \in Users, code \in Codes : generateInviteCode(u, code)
    \/ \E code \in Codes : ClientInvite(code)
    \/ \E u \in Users \ {Self}, code \in Codes : sendFriendRequestByInvite(u, code)
    \/ \E q \in friendRequests : ClientAccept(q.id)
    \/ \E q \in friend_requests :
          q.receiver_id # Self /\ acceptFriendRequest(q.receiver_id, q.id)
    \/ \E ch \in 1..MaxChannels, t \in {"friend_requests", "friendships"} :
          DeliverTableEvent(ch, t)
    \/ \E k \in {"friends", "friendRequests"} :
          \E f \in fetches[k] : FetchResolve(k, f)

SpecInvite == InitInvite /\ [][NextInvite]_vars

\* The client generating invite codes while its session comes and goes, and
\* the other identities generating theirs.
NextCodes ==
    \/ login
    \/ \E ok \in BOOLEAN : ProfileFetched(ok)
    \/ SessionLost
    \/ \E code \in InviteCodes : ClientGenerateInviteCode(code)
    \/ \E u \in Users \ {Self}, code \in InviteCodes : generateInviteCode(u, code)

SpecCodes == InitInvite /\ [][NextCodes]_vars

\* created_at values (now() at the insert), in clock order
Times == 1..MaxTime

\* INSERT INTO messages: id DEFAULT gen_random_uuid(), created_at DEFAULT
\* now(); the clock does not run backwards, two inserts can read the same
\* time
InsertMessage(id, c, t) ==
    /\ \A r \in message_rows : r.id # id /\ r.created_at <= t
    /\ message_rows' = message_rows \cup
                          {[id |-> id, conversation_id |-> c, created_at |-> t]}
    /\ UNCHANGED <<dbConv, call, dbFriends, db_messages, lastSend, presenceVars,
                   loginVars, typingAll, clientVars>>

\* .eq('conversation_id', c).order('created_at', { ascending: true }): the
\* rows of c in any order that is ascending in created_at; the statement
\* names no second sort key, so rows of equal created_at come in the order
\* the database picks
OrderedReads(c) ==
    LET R == {r \in message_rows : r.conversation_id = c}
        n == Cardinality(R)
    IN {s \in [1..n -> R] :
           /\ \A i, j \in 1..n : i # j => s[i] # s[j]
           /\ \A i \in 1..n : i < n => s[i].created_at <= s[i + 1].created_at}

\* fetchMessages(c): the ordered select under the caller's session, then
\* setMessages(typedMessages)
fetchMessages(c) ==
    /\ session # Null
    /\ session \in ParticipantsOf(c)
    /\ msgStore' \in OrderedReads(c)
    /\ UNCHANGED <<dbConv, call, dbFriends, dbMessages, presenceVars, loginVars,
                   typingAll, authVars, currentConversation, convStore, friends,
                   friendRequests, pendingRequests, isLoading, subVars, fetchVars>>

\* The order of a fetched log: messages are inserted with their database
\* defaults and a conversation's log is fetched.
NextOrder ==
    \/ \E id \in 1..MaxMessages, c \in 1..MaxConvs, t \in Times : InsertMessage(id, c, t)
    \/ \E c \in 1..MaxConvs : fetchMessages(c)

SpecOrder == InitClient /\ [][NextOrder]_vars

\* Typing in the message input of a signed-in client: conversation
\* switches, keystrokes, the debounce timer firing and sends.
NextTyping ==
    \/ ProfileFetched(TRUE)
    \/ \E f \in fetches["conversations"] : FetchResolve("conversations", f)
    \/ \E c \in VisibleConvs : setCurrentConversation(c)
    \/ \E value \in Inputs : handleInputChange(value)
    \/ \E t \in 1..MaxTimers : TypingTimeout(t)
    \/ handleSendMessage

SpecTyping == InitClient /\ [][NextTyping]_vars

\* Presence: sign-in, auth events, profile fetches and logout, with the
\* status calls they send reaching the database in any order.
NextPresence ==
    \/ login
    \/ AuthStateChange
    \/ \E ok \in BOOLEAN : ProfileFetched(ok)
    \/ \E s \in {"online", "offline"} : ApplyStatus(s)
    \/ logout
    \/ LogoutSignOut
    \/ LogoutDone

SpecPresence == InitClient /\ [][NextPresence]_vars

\* Failing sign-ins and sign-outs: login attempts the provider rejects or
\* that throw, and logout with its status call or signOut failing.
NextLogin ==
    \/ login
    \/ LoginBegin
    \/ LoginRejected
    \/ LoginThrew
    \/ AuthStateChange
    \/ \E ok \in BOOLEAN : ProfileFetched(ok)
    \/ logout
    \/ LogoutSignOut
    \/ LogoutStatusThrew
    \/ LogoutDone
    \/ LogoutSignOutError
    \/ LogoutSignOutThrew

SpecLogin == InitClient /\ [][NextLogin]_vars

\* ------------------------------------------------------------------------
\* Claims
\* ------------------------------------------------------------------------
DirectBetween(a, b) ==
    {c \in conversations : c.type = "direct" /\ ParticipantsOf(c.id) = {a, b}}

\* C1: when resolve(A,B) and resolve(B,A) run concurrently for a pair that has
\* no direct conversation, both calls return the same conversation id and
\* exactly one direct conversation with participants {A, B} exists afterward.
C1_ConcurrentResolveAgree ==
    \A a \in Users, b \in Users :
        ( /\ a # b
          /\ call[a].pc = "done" /\ call[a].other_user_id = b /\ call[a].racing
          /\ call[b].pc = "done" /\ call[b].other_user_id = a /\ call[b].racing )
        => /\ call[a].conv_id = call[b].conv_id
           /\ Cardinality(DirectBetween(a, b)) = 1

\* C2: after setCurrentConversation(X) then setCurrentConversation(Y) with
\* X's fetch still in flight, once the fetches have resolved (in any order)
\* the Message Store holds Y's log: no message of another conversation.
C2_LastSwitchWins ==
    (currentConversation # Null /\ fetches["messages"] = {})
    => \A i \in 1..Len(msgStore) : msgStore[i].conversation_id = currentConversation

\* C3: whenever a 'message created' event is delivered whose conversation is
\* the one active at delivery, a re-fetch of that conversation's log is
\* issued (observed from a state with no log fetch in flight: afterwards one
\* for the active conversation is).
C3_ActiveMessageEventRefetches ==
    [][ \A ch \in 1..MaxChannels, i \in 1..MaxMessages :
          ( /\ DeliverMessageInsert(ch, i)
            /\ fetches["messages"] = {}
            /\ currentConversation # Null
            /\ db_messages[i].conversation_id = currentConversation )
          => \E f \in fetches'["messages"] :
                f.conv = currentConversation /\ f.last ]_vars

RefreshedKinds == {"conversations", "friends", "friendRequests"}

StoreHolds(k, data) ==
    CASE k = "conversations" -> convStore = data
      [] k = "friends" -> friends = data
      [] k = "friendRequests" ->
            friendRequests = Received(data) /\ pendingRequests = Sent(data)

\* C4: for the conversation list, the friend list and the friend-request
\* queues: once all fetches of the store have resolved, the store equals the
\* result of the latest-issued fetch (an earlier fetch that resolves last does
\* not overwrite it).
C4_LatestFetchWins ==
    \A k \in RefreshedKinds :
        (fetches[k] = {} /\ latestRead[k] # <<>>) => StoreHolds(k, latestRead[k][1])

\* C5: at most one push subscription is open at any time, and exactly one
\* while the session is authenticated.
C5_OneSubscription ==
    /\ Cardinality(Subscribed) <= 1
    /\ user # Null => Cardinality(Subscribed) = 1

\* C6: after logout() completes, or the session is lost and user becomes null,
\* no push subscription remains subscribed.
C6_UnsubscribedAfterSignOut ==
    user = Null => Subscribed = {}

\* C7: after user becomes null the conversation list, the message log, the
\* active conversation id, the friend list and both request queues are empty.
C7_StoresClearedOnSignOut ==
    user = Null =>
        /\ convStore = <<>>
        /\ msgStore = <<>>
        /\ currentConversation = Null
        /\ friends = {}
        /\ friendRequests = {}
        /\ pendingRequests = {}

\* The request named by id is absent, not pending, or not addressed to u.
AcceptInvalid(u, id) ==
    ~ \E q \in friend_requests :
          q.id = id /\ q.status = "pending" /\ q.receiver_id = u

\* C8: accept(requestId) fails, changing neither any friend request nor the
\* friendships, whenever the request does not exist, is not pending, or its
\* receiver is not the caller.
C8_AcceptInvalidFailsUnchanged ==
    [][ ( /\ lastOp' # lastOp
          /\ lastOp'.op = "accept"
          /\ AcceptInvalid(lastOp'.caller, lastOp'.arg) )
        => ( /\ lastOp'.ok = FALSE
             /\ friend_requests' = friend_requests
             /\ friendships' = friendships ) ]_vars

\* C8 witness: an accept by the sender of a pending request has failed.
C8_Witness ==
    /\ lastOp.op = "accept" /\ lastOp.ok = FALSE
    /\ \E q \in friend_requests :
          /\ q.id = lastOp.arg /\ q.status = "pending"
          /\ q.sender_id = lastOp.caller /\ q.receiver_id # lastOp.caller

\* C9: there is at most one Friendship row per unordered pair of identities,
\* and every Friendship row stores the lower id first.
C9_FriendshipCanonicalUnique ==
    /\ \A f \in friendships : f.user1_id < f.user2_id
    /\ \A f \in friendships, g \in friendships :
          {f.user1_id, f.user2_id} = {g.user1_id, g.user2_id} => f = g

\* C9 witness: the requests of both directions of one pair were accepted.
C9_Witness ==
    \E a \in Users, b \in Users :
        /\ a < b
        /\ {RequestId(a, b), RequestId(b, a)} \subseteq acceptLog
        /\ AreFriends(a, b)

\* C10: a Friendship between A and B exists iff an accept of a friend request
\* between A and B has succeeded; a request accepted by accept always has its
\* Friendship (one atomic step), and nothing else creates a Friendship.
C10_FriendshipIffAccepted ==
    /\ friendships =
          {FriendshipOf(q.sender_id, q.receiver_id) :
              q \in {r \in friend_requests : r.id \in acceptLog}}
    /\ \A q \in friend_requests :
          q.status = "accepted" => AreFriends(q.sender_id, q.receiver_id)
    /\ (lastOp.op = "accept" /\ lastOp.ok) =>
          \E q \in friend_requests :
              /\ q.id = lastOp.arg /\ q.status = "accepted"
              /\ AreFriends(q.sender_id, q.receiver_id)

\* C10 witness: an accept has just succeeded after sends in both directions.
C10_Witness ==
    /\ lastOp.op = "accept" /\ lastOp.ok
    /\ Cardinality(friend_requests) = 2
    /\ friendships # {}

\* C11: accepting is terminal: a friend request with status accepted keeps
\* that status in every later state, whatever accept or reject call is made
\* on it by any identity, and a further accept of it fails.
C11_AcceptedIsTerminal ==
    [][ \A q \in friend_requests :
          q.status = "accepted" =>
             /\ q \in friend_requests'
             /\ ( /\ lastOp' # lastOp
                  /\ lastOp'.op = "accept"
                  /\ lastOp'.arg = q.id ) => lastOp'.ok = FALSE ]_vars

\* the pending requests of the ordered pair (s, r)
PendingOf(s, r) ==
    {q \in friend_requests : q.sender_id = s /\ q.receiver_id = r /\ q.status = "pending"}

\* C12: for every ordered pair (sender, receiver) at most one pending friend
\* request exists in every state, and a sendRequest from the same sender to
\* the same receiver while one is pending fails and creates no row.
C12_OnePendingPerOrderedPair ==
    [][ /\ \A s \in Users, r \in Users : Cardinality(PendingOf(s, r))' <= 1
        /\ ( /\ lastOp' # lastOp
             /\ lastOp'.op = "send"
             /\ PendingOf(lastOp'.caller, lastOp'.arg) # {} )
           => ( /\ lastOp'.ok = FALSE
                /\ friend_requests' = friend_requests ) ]_vars

\* C12 witness: a send has failed while a request of the same ordered pair is
\* pending.
C12_Witness ==
    /\ lastOp.op = "send" /\ lastOp.ok = FALSE
    /\ PendingOf(lastOp.caller, lastOp.arg) # {}

\* C13: sendRequest(target) fails and creates no row when a pending request
\* already exists between the caller and target in either direction (so also
\* while a request target -> caller is pending).
C13_DuplicateEitherDirection ==
    [][ ( /\ lastOp' # lastOp
          /\ lastOp'.op = "send"
          /\ PendingOf(lastOp'.caller, lastOp'.arg)
                \cup PendingOf(lastOp'.arg, lastOp'.caller) # {} )
        => ( /\ lastOp'.ok = FALSE
             /\ friend_requests' = friend_requests ) ]_vars

\* C14: self-requests are impossible: sendRequest(self) and
\* sendRequestByInviteCode(the caller's own code) fail and create no row, and
\* no friend request ever has sender = receiver.
C14_NoSelfRequest ==
    [][ /\ \A q \in friend_requests' : q.sender_id # q.receiver_id
        /\ ( /\ lastOp' # lastOp
             /\ lastOp'.op = "send"
             /\ lastOp'.caller = lastOp'.arg )
           => ( /\ lastOp'.ok = FALSE
                /\ friend_requests' = friend_requests )
        /\ \A u \in Users, code \in Codes :
             ( /\ invite_code[u] = code
               /\ sendFriendRequestByInvite(u, code) )
             => ( /\ lastOp'.ok = FALSE
                  /\ friend_requests' = friend_requests ) ]_vars

\* C14 witness: a call by invite code has failed for a caller who holds the
\* (only) code itself.
C14_Witness ==
    /\ lastOp.op = "invite" /\ lastOp.ok = FALSE
    /\ \E u \in Users : invite_code[u] \in Codes /\ lastOp.caller = u

\* C15: reject(requestId) sets the request's status to rejected only when the
\* caller is the request's receiver; called by any other identity it leaves
\* every request unchanged; and it never creates or removes a Friendship.
C15_RejectReceiverOnly ==
    [][ ( /\ lastOp' # lastOp
          /\ lastOp'.op = "reject" )
        => ( /\ friendships' = friendships
             /\ \A q \in friend_requests :
                  IF q.id = lastOp'.arg /\ q.receiver_id = lastOp'.caller
                  THEN [q EXCEPT !.status = "rejected"] \in friend_requests'
                  ELSE q \in friend_requests'
             /\ Cardinality(friend_requests') = Cardinality(friend_requests) ) ]_vars

\* C15 witness: the sender of a pending request has called reject on it, with
\* a friendship present.
C15_Witness ==
    /\ lastOp.op = "reject"
    /\ friendships # {}
    /\ \E q \in friend_requests :
          /\ q.id = lastOp.arg /\ q.sender_id = lastOp.caller
          /\ q.status = "pending"

\* C16: for an invite code that resolves to identity T,
\* sendRequestByInviteCode(code) succeeds exactly in the states where
\* sendRequest(T) succeeds and leaves the same friend-request rows; for a code
\* that resolves to no identity it fails and creates no row.
C16_InviteBehavesAsSend ==
    [][ \A u \in Users, code \in Codes :
          sendFriendRequestByInvite(u, code) =>
             /\ \A t \in Users :
                  invite_code[t] = code =>
                     /\ lastOp'.ok = SendAllowed(u, t)
                     /\ friend_requests' = IF SendAllowed(u, t)
                                           THEN InsertRequest(u, t)
                                           ELSE friend_requests
             /\ (\A t \in Users : invite_code[t] # code) =>
                     /\ lastOp'.ok = FALSE
                     /\ friend_requests' = friend_requests ]_vars

\* the requests among rows that are pending between the client's identity and o
PendingWith(rows, o) ==
    {q \in rows : q.status = "pending" /\ {q.sender_id, q.receiver_id} = {Self, o}}

\* an invite-code request between the client's identity and o was accepted,
\* and the refreshes of the friend list and the request queues issued since
\* have all resolved, the latest of them having read the state after the accept
InviteAcceptedAndRefreshed(o) ==
    /\ user = Self
    /\ \E q \in friend_requests :
          /\ q.id \in acceptLog
          /\ {q.sender_id, q.receiver_id} = {Self, o}
    /\ fetches["friends"] = {} /\ fetches["friendRequests"] = {}
    /\ latestRead["friends"] # <<>> /\ latestRead["friendRequests"] # <<>>
    /\ o \in latestRead["friends"][1]
    /\ PendingWith(latestRead["friendRequests"][1], o) = {}

\* C17: after A's request to B by invite code is accepted by B, and the
\* change events are delivered and the refreshes they trigger have resolved,
\* the friend list of either side contains the other and neither side's
\* incoming or outgoing queue holds a pending request involving the other
\* (stated for the modelled client as either A or B).
C17_InviteAcceptedBothSeeFriend ==
    \A o \in Users \ {Self} :
        InviteAcceptedAndRefreshed(o) =>
            /\ o \in friends
            /\ PendingWith(friendRequests \cup pendingRequests, o) = {}

\* a step of sendMessage
SendStep == lastSend' # lastSend \/ db_messages' # db_messages

\* every character of s is whitespace
AllWhitespace(s) == \A i \in 1..Len(s) : s[i] \in Whitespace

\* t is s without its leading and trailing whitespace, and is not empty
TrimmedTextOf(t, s) ==
    /\ t # <<>>
    /\ t[1] \notin Whitespace /\ t[Len(t)] \notin Whitespace
    /\ \E i \in 0..Len(s) :
          /\ i + Len(t) <= Len(s)
          /\ SubSeq(s, i + 1, i + Len(t)) = t
          /\ AllWhitespace(SubSeq(s, 1, i))
          /\ AllWhitespace(SubSeq(s, i + Len(t) + 1, Len(s)))

\* C18: sendMessage(C, content) with content that is empty or whitespace-only
\* sends nothing (no message row, no timestamp update), and every message row
\* it creates stores the trimmed, non-empty text.
C18_BlankNotSentTextTrimmed ==
    [][ SendStep =>
          /\ AllWhitespace(lastSend'.content) =>
                (db_messages' = db_messages /\ lastSend'.bumped = FALSE)
          /\ db_messages' # db_messages =>
                /\ Len(db_messages') = Len(db_messages) + 1
                /\ SubSeq(db_messages', 1, Len(db_messages)) = db_messages
                /\ TrimmedTextOf(db_messages'[Len(db_messages')].content,
                                 lastSend'.content) ]_vars

\* C18 witness: a whitespace-only send has left the messages as they were
\* after a padded text was stored trimmed.
C18_Witness ==
    /\ lastSend.content = <<" ">>
    /\ Len(db_messages) = MaxMessages
    /\ db_messages[Len(db_messages)].content = <<"a">>

\* C19: sendMessage issues the update of the conversation's last-update
\* timestamp if and only if the message insert succeeded; when the insert
\* fails no update is issued and no message row is created.
C19_BumpIffInserted ==
    [][ SendStep =>
          /\ lastSend'.bumped <=> Len(db_messages') = Len(db_messages) + 1
          /\ lastSend'.bumped = FALSE => db_messages' = db_messages ]_vars

\* C19 witness: the insert of a non-blank text into a conversation that does
\* not exist has failed.
C19_Witness ==
    /\ lastSend.conversation_id = NoConv
    /\ lastSend.content = <<"b">>
    /\ lastSend.bumped = FALSE
    /\ Len(db_messages) < MaxMessages

\* C20: sendMessage never writes the Message Store or the Conversation Store,
\* whether the send succeeds or fails; the Message Store changes only through
\* a resolved log fetch or a switch to no conversation, and log fetches are
\* issued only by a conversation switch or a 'message created' event.
C20_SendWritesNoStore ==
    [][ /\ SendStep => (msgStore' = msgStore /\ convStore' = convStore)
        /\ msgStore' # msgStore =>
              \/ (currentConversation' = Null /\ msgStore' = <<>>)
              \/ \E f \in fetches["messages"] :
                    f \notin fetches'["messages"] /\ msgStore' = f.data
        /\ ~ (fetches'["messages"] \subseteq Canon(Earlier(fetches["messages"])
                                                \cup fetches["messages"])) =>
              \/ currentConversation' # currentConversation
              \/ \E ch \in 1..MaxChannels, i \in 1..MaxMessages :
                    DeliverMessageInsert(ch, i) ]_vars

\* C20 witness: a message was sent to the active conversation, whose log is
\* shown without it.
C20_Witness ==
    /\ lastSend.bumped
    /\ lastSend.conversation_id = currentConversation
    /\ msgStore # <<>>
    /\ \A i \in 1..Len(msgStore) : msgStore[i].id # Len(db_messages)

\* C21: with the backend unchanged, delivering the same 'message created'
\* event of conversation C again leaves the Message Store as one delivery
\* left it: a delivery that finds the store holding C's log writes nothing
\* and puts in flight only fetches carrying that log, and a fetch that
\* carries what the store holds leaves it unchanged when it resolves.
C21_RedeliveryIdempotent ==
    [][ /\ \A ch \in 1..MaxChannels, i \in 1..MaxMessages :
             ( /\ DeliverMessageInsert(ch, i)
               /\ db_messages[i].conversation_id = HandlerConversation(ch)
               /\ fetches["messages"] = {}
               /\ msgStore = ReadMessages(session, HandlerConversation(ch)) )
             => ( /\ msgStore' = msgStore
                  /\ fetches'["messages"] # {}
                  /\ \A f \in fetches'["messages"] : f.data = msgStore )
        /\ \A f \in fetches["messages"] :
             (FetchResolve("messages", f) /\ f.data = msgStore)
             => msgStore' = msgStore ]_vars

\* C21 witness: the store holds the log of the conversation a subscribed
\* channel watches, with a row newer than the subscription, and a further
\* fetch carrying the same log is in flight.
C21_Witness ==
    \E ch \in Subscribed :
        /\ channels[ch].conv # Null
        /\ msgStore = ReadMessages(session, channels[ch].conv)
        /\ \E j \in 1..Len(msgStore) : msgStore[j].id > channels[ch].since
        /\ \E f \in fetches["messages"] :
              f.conv = channels[ch].conv /\ f.data = msgStore

\* C22: the Message Store sequence is non-decreasing by creation timestamp,
\* and messages of equal timestamp stand in ascending id order.
C22_StoreOrdered ==
    \A i, j \in 1..Len(msgStore) :
        i < j => \/ msgStore[i].created_at < msgStore[j].created_at
                 \/ /\ msgStore[i].created_at = msgStore[j].created_at
                    /\ msgStore[i].id < msgStore[j].id

C29_SendAndSwitchStopTyping ==
    [][ \A c \in 1..MaxConvs :
           ( /\ isTyping
             /\ typingCall[c] = "start"
             /\ handleSendMessage \/ currentConversation' # currentConversation )
           => ( /\ typingCall'[c] = "stop"
                /\ PendingTimers' = {}
                /\ ~ isTyping' ) ]_vars

\* C30: every startTyping(C) is followed by stopTyping(C): once no debounce
\* timer is pending, no conversation has startTyping as its latest typing
\* call and no typing indicator of the user has is_typing = true.
C30_TypingAlwaysStopped ==
    PendingTimers = {} =>
       /\ \A c \in 1..MaxConvs : typingCall[c] # "start"
       /\ \A r \in typing_indicators : r.user_id = Self => ~ r.is_typing

\* C24: whenever the session is authenticated for the signed-in user, no
\* logout is under way and every update_user_status call sent has run at
\* the database, in whatever order the calls arrived, the user's presence
\* is online; in particular after a re-set of the identity.
C24_AuthenticatedIsOnline ==
    (user # Null /\ session = user /\ logoutPc = "idle" /\ statusCalls = {})
    => presence = "online"

\* C25: logout() always ends with user = null, also when the offline
\* status update or signOut fails or throws.
C25_LogoutEndsSignedOut ==
    [][ (logoutPc # "idle" /\ logoutPc' = "idle") => user' = Null ]_vars

\* C26: when the provider rejects a login or the call throws, login
\* returns false, the error field holds a non-empty message, the loading
\* flag is reset to false and the user stays null.
C26_LoginFailureReported ==
    [][ (LoginRejected \/ LoginThrew)
        => ( /\ loginReturn' = "false"
             /\ error' # NoError /\ error' # ""
             /\ ~ authIsLoading'
             /\ user' = user
             /\ user = Null => user' = Null ) ]_vars

\* C26 witness: a login attempt has failed: it returned false and the
\* error field holds the message
C26_Witness ==
    /\ loginReturn = "false"
    /\ error \in ProviderMessages \cup {LoginException}
    /\ ~ authIsLoading
    /\ user = Null

\* C27: user is non-null only while the provider holds a session for that
\* identity; a profile fetch still in flight when the session ends never
\* re-establishes a non-null user.
C27_UserOnlyWithSession ==
    user # Null => session = user

\* the refreshes a 'message created' event of message m is to trigger
MessageEventCategory(m) ==
    {"conversations"} \cup
    (IF m.conversation_id = currentConversation THEN {"messages"} ELSE {})

\* the step issued a fetch of kind k that reads the present backend state
\* (for the log: the active conversation's)
RefreshIssued(k) ==
    /\ latestRead'[k] = <<>>
    /\ \E f \in fetches'[k] :
          /\ f.last
          /\ f.data = Read(k, currentConversation)
          /\ k = "messages" => f.conv = currentConversation

\* the step left kind k alone
NoRefresh(k) == fetches'[k] = fetches[k] /\ latestRead'[k] = latestRead[k]

\* C28: each change event triggers exactly the refreshes of its category
\* and writes no store: message created -> the conversation list, and the
\* message log when its conversation is the active one; participant added,
\* conversation updated -> the conversation list; friend request changed ->
\* the request queues; friendship changed, profile updated -> the friend
\* list.
C28_EventRefreshesItsCategory ==
    [][ /\ \A ch \in 1..MaxChannels, i \in 1..MaxMessages :
             DeliverMessageInsert(ch, i) =>
                /\ \A k \in Kinds :
                      IF k \in MessageEventCategory(db_messages[i])
                      THEN RefreshIssued(k) ELSE NoRefresh(k)
                /\ UNCHANGED <<convStore, msgStore, friends, friendRequests,
                               pendingRequests>>
        /\ \A ch \in 1..MaxChannels, t \in Tables :
             DeliverTableEvent(ch, t) =>
                /\ \A k \in Kinds :
                      IF k = TableKind(t) THEN RefreshIssued(k) ELSE NoRefresh(k)
                /\ UNCHANGED <<convStore, msgStore, friends, friendRequests,
                               pendingRequests>> ]_vars

\* C31: while the local typing flag is set a keystroke issues no
\* startTyping call, and between two consecutive stopTyping calls at most
\* one startTyping call is made.
C31_OneStartPerTypingSpell ==
    [][ /\ startsSinceStop' <= 1
        /\ \A value \in Inputs :
              (handleInputChange(value) /\ isTyping)
              => UNCHANGED <<typing_indicators, typingCall, startsSinceStop>> ]_vars

\* C31 witness: a keystroke arrived while the typing flag was set: two
\* timers have been set with no stopTyping call so far, and one startTyping
\* call has been made
C31_Witness ==
    /\ isTyping
    /\ Len(timers) >= 2
    /\ \A c \in 1..MaxConvs : typingCall[c] # "stop"
    /\ startsSinceStop = 1

\* C32: a switch of the active conversation leaves the Message Store empty
\* at once, before the new conversation's fetch resolves, and a switch to
\* none empties the store and issues no fetch.
C32_SwitchClearsMessageStore ==
    [][ currentConversation' # currentConversation
        => ( /\ msgStore' = <<>>
             /\ currentConversation' = Null => fetches' = fetches ) ]_vars

\* the SELECT policy "Users can view conversation participants" as the later
\* migration replaces it: a row is visible to its own user and to the
\* creator of its conversation
VisibleParticipantRows(uid) ==
    {p \in conversation_participants :
        \/ p.user_id = uid
        \/ \E c \in conversations : c.id = p.conversation_id /\ c.created_by = uid}

\* C33: every participant of a conversation, its creator or not, reads all
\* participant rows of that conversation, and an identity that does not
\* participate reads none of its participant rows and none of its messages.
C33_ParticipantsReadAllRows ==
    \A c \in conversations, u \in Users :
        IF u \in ParticipantsOf(c.id)
        THEN ParticipantRows(c.id) \subseteq VisibleParticipantRows(u)
        ELSE /\ ParticipantRows(c.id) \cap VisibleParticipantRows(u) = {}
             /\ ReadMessages(u, c.id) = <<>>

\* C34: every direct conversation has exactly two participant rows of two
\* distinct identities, and a resolve call of an identity for itself creates
\* no conversation and no participant row and returns no conversation id.
C34_DirectHasTwoParticipants ==
    [][ /\ \A c \in conversations' :
              c.type = "direct"
              => /\ Cardinality(ParticipantRows(c.id)') = 2
                 /\ Cardinality(ParticipantsOf(c.id)') = 2
        /\ \A u \in Users :
              (call[u].other_user_id = u /\ call'[u] # call[u])
              => /\ UNCHANGED <<conversations, conversation_participants>>
                 /\ call'[u].pc # "done" ]_vars

\* C35: when the resolve calls of a pair run one at a time, by either party
\* and any number of times, every returned id is the id of the one direct
\* conversation of the pair (conversations are never deleted, so all calls
\* of the pair return the same id).
C35_SequentialResolveIdempotent ==
    \A a \in Users : \A b \in Users \ {a} :
        /\ Cardinality(DirectBetween(a, b)) <= 1
        /\ (call[a].pc = "done" /\ call[a].other_user_id = b)
           => {c.id : c \in DirectBetween(a, b)} = {call[a].conv_id}

\* both parties have resolved the pair, the second one finding the
\* conversation the first one created
C35_Witness ==
    \E a \in Users : \E b \in Users \ {a} :
        /\ call[a].pc = "done" /\ call[a].other_user_id = b
        /\ call[b].pc = "done" /\ call[b].other_user_id = a
        /\ \E c \in DirectBetween(a, b) : c.created_by = a

\* C36: after a generateInviteCode() that returned a code, the caller's
\* profile holds exactly that code and no other code resolves to the caller;
\* a generateInviteCode() that returned no code leaves every profile's code
\* as it was.
C36_GenerateReplacesCode ==
    [][ \A code \in InviteCodes :
           ClientGenerateInviteCode(code)
           => IF lastOp'.ok
              THEN /\ invite_code'[user] = code
                   /\ \A old \in InviteCodes \ {code} : invite_code'[user] # old
              ELSE invite_code' = invite_code ]_vars

\* C37: a profile fetch that fails while the provider holds a session is
\* retried: the failed fetch is replaced by one more fetch in flight.  (No
\* fetch of the model is itself a retry, so every failure is a first one.)
C37_FailedProfileFetchRetried ==
    [][ (ProfileFetched(FALSE) /\ session # Null)
        => profileFetches' >= profileFetches ]_vars

\* C38: sendRequest(target) succeeds whenever target is not the caller and
\* no pending request exists between the two in either direction (read for
\* identities that are not friends yet), so also after an earlier request of
\* the caller to target was rejected.
C38_SendSucceedsWithoutPending ==
    [][ ( /\ lastOp' # lastOp
          /\ lastOp'.op = "send"
          /\ lastOp'.caller # lastOp'.arg
          /\ ~ AreFriends(lastOp'.caller, lastOp'.arg)
          /\ PendingOf(lastOp'.caller, lastOp'.arg)
                \cup PendingOf(lastOp'.arg, lastOp'.caller) = {} )
        => lastOp'.ok ]_vars

\* C39: in every reachable state no pending friend request exists between
\* two identities that have a Friendship.
C39_NoPendingBetweenFriends ==
    \A q \in friend_requests :
        q.status = "pending" => ~ AreFriends(q.sender_id, q.receiver_id)

\* C40: when a refresh fetch (conversations, messages, friends, friend
\* requests) returns an error or throws, every store keeps its contents and
\* a failed fetchConversations leaves the conversation-loading flag false.
C40_FailedFetchKeepsStore ==
    [][ \A k \in Kinds : \A f \in fetches[k] :
           FetchFail(k, f)
           => /\ UNCHANGED <<convStore, msgStore, friends, friendRequests,
                             pendingRequests>>
              /\ k = "conversations" => ~ isLoading' ]_vars

\* the conversations fetch issued last has failed (it left no read) after an
\* earlier one had filled the store: the store still holds those rows and the
\* loading flag is down
C40_Witness ==
    /\ fetches["conversations"] = {}
    /\ latestRead["conversations"] = <<>>
    /\ convStore # <<>>
    /\ ~ isLoading

====
